---- MODULE Spec2Model ----
(***************************************************************************)
(* A model of the clockify_utils weekly scheduler: the date-range and      *)
(* slot planner (weekly_scheduler.py), the duplicate index                 *)
(* (clockify_client.py) and the description generator                      *)
(* (description_generator.py).                                             *)
(*                                                                         *)
(* Python strings are sequences of one-character strings, so that          *)
(* slicing, stripping, splitting and joining are computed.  Python dicts   *)
(* are records whose DOMAIN may lack optional keys.  A datetime is the     *)
(* number of minutes since Monday 2024-03-04 00:00; every date of the      *)
(* model lies in March 2024, so the year and month of a formatted date are *)
(* fixed and only the day of month is computed.                            *)
(***************************************************************************)
EXTENDS Integers, Sequences, FiniteSets, TLC

VARIABLES
    pc,               \* position of main(): "start", "day", "slot", "done"
    args,             \* parsed command line: start_date, end_date, dry_run, analyze_history
    today,            \* datetime.now()
    config,           \* loaded configuration: schedule, optional day_start_hour
    server,           \* what the remote service answers: entries, history
    start_date,       \* main's start_date
    end_date,         \* main's end_date
    existing,         \* duplicate index: project id -> set of date strings
    history_entries,  \* main's history_entries
    dates,            \* main's dates
    dayIdx,           \* number of dates whose loop body was entered
    date_str,         \* main's date_str of the current day
    slots,            \* main's slots of the current day
    slotIdx,          \* number of slots of the current day already processed
    entries_created,  \* main's entries_created
    entries_skipped,  \* main's entries_skipped
    generator,        \* the DescriptionGenerator object last used
    description,      \* the description last returned by generate()
    summary,          \* the numbers printed by the final summary
    tally,            \* history: what happened so far (calls, failures, previews)
    last,             \* history: what happened to the slot processed last
    emitted,          \* history: project id -> template last selected for it in this run
    streak            \* history: consecutive generate() calls selecting the same template

vars == <<pc, args, today, config, server, start_date, end_date, existing,
          history_entries, dates, dayIdx, date_str, slots, slotIdx,
          entries_created, entries_skipped, generator, description, summary,
          tally, last, emitted, streak>>

----------------------------------------------------------------------------
(* Python values *)

None == <<"<None>">>

Truthy(v) == v # None /\ v # <<>>

Get(d, k, default) == IF k \in DOMAIN d THEN d[k] ELSE default

Range(s) == {s[i] : i \in 1..Len(s)}

Slice(s, n) == SubSeq(s, 1, IF Len(s) < n THEN Len(s) ELSE n)

Whitespace == {" "}

RECURSIVE LStrip(_)
LStrip(s) ==
    IF s # <<>> /\ Head(s) \in Whitespace THEN LStrip(Tail(s)) ELSE s

RECURSIVE RStrip(_)
RStrip(s) ==
    IF s # <<>> /\ s[Len(s)] \in Whitespace
    THEN RStrip(SubSeq(s, 1, Len(s) - 1))
    ELSE s

Strip(s) == RStrip(LStrip(s))

RECURSIVE SplitFrom(_, _, _)
SplitFrom(s, sep, cur) ==
    IF s = <<>> THEN <<cur>>
    ELSE IF Head(s) = sep
         THEN <<cur>> \o SplitFrom(Tail(s), sep, <<>>)
         ELSE SplitFrom(Tail(s), sep, Append(cur, Head(s)))

Split(s, sep) == SplitFrom(s, sep, <<>>)

RECURSIVE Join(_, _)
Join(parts, sep) ==
    IF parts = <<>> THEN <<>>
    ELSE IF Len(parts) = 1 THEN parts[1]
         ELSE parts[1] \o sep \o Join(Tail(parts), sep)

----------------------------------------------------------------------------
(* datetime *)

MinutesPerDay == 24 * 60

Days(n) == n * MinutesPerDay

DayOf(dt) == dt \div MinutesPerDay

\* datetime.weekday(): 0 is Monday; day 0 of the model is a Monday
Weekday(dt) == DayOf(dt) % 7

\* datetime.replace(hour=h, minute=0, second=0, microsecond=0)
ReplaceTime(dt, hour) == Days(DayOf(dt)) + hour * 60

Digits == <<"0", "1", "2", "3", "4", "5", "6", "7", "8", "9">>

DigitVal(c) == CHOOSE n \in 0..9 : Digits[n + 1] = c

TwoDigits(n) == <<Digits[(n \div 10) + 1], Digits[(n % 10) + 1]>>

YearMonth == <<"2", "0", "2", "4", "-", "0", "3", "-">>

\* day 0 of the model is 2024-03-04
DayOfMonth(dt) == DayOf(dt) + 4

\* datetime.strftime("%Y-%m-%d")
StrftimeDate(dt) == YearMonth \o TwoDigits(DayOfMonth(dt))

\* datetime.strptime(s, "%Y-%m-%d"): midnight of the day written in s
StrptimeDate(s) == Days(DigitVal(s[9]) * 10 + DigitVal(s[10]) - 4)

\* datetime.strftime("%Y-%m-%dT%H:%M:%SZ")
StrftimeStamp(dt) ==
    StrftimeDate(dt) \o <<"T">> \o TwoDigits((dt % MinutesPerDay) \div 60)
        \o <<":">> \o TwoDigits(dt % 60) \o <<":", "0", "0", "Z">>

----------------------------------------------------------------------------
(* weekly_scheduler.py: the planner *)

FirstWeekendDay == 5

DefaultSpanDays == 4

DefaultDailyMinutes == 60

DefaultStartHour == 9

\* main, lines 139-143
ResolveStartDate(a, now) ==
    IF Truthy(a.start_date)
    THEN StrptimeDate(a.start_date)
    ELSE now - Days(Weekday(now))

\* main, lines 145-149
ResolveEndDate(a, start) ==
    IF Truthy(a.end_date)
    THEN StrptimeDate(a.end_date)
    ELSE start + Days(DefaultSpanDays)

RECURSIVE WeekDatesFrom(_, _)
WeekDatesFrom(current, end) ==
    IF current <= end
    THEN (IF Weekday(current) < FirstWeekendDay THEN <<current>> ELSE <<>>)
             \o WeekDatesFrom(current + Days(1), end)
    ELSE <<>>

get_week_dates(start, end) == WeekDatesFrom(start, end)

\* the slots of `schedule` from position i on, the first starting at current_time
RECURSIVE SlotsFrom(_, _, _)
SlotsFrom(current_time, schedule, i) ==
    IF i > Len(schedule) THEN <<>>
    ELSE LET project == schedule[i]
             end_time == current_time + Get(project, "daily_minutes", DefaultDailyMinutes)
         IN  <<[start |-> current_time,
                end |-> end_time,
                project_id |-> project.project_id,
                project_name |-> Get(project, "name", "Unknown"),
                templates |-> Get(project, "description_templates", <<>>)]>>
                 \o SlotsFrom(end_time, schedule, i + 1)

\* a variant that never advances current_time
calculate_time_slots_stuck(date, schedule, start_hour) ==
    [i \in 1..Len(schedule) |->
        LET project == schedule[i]
            current_time == ReplaceTime(date, start_hour)
        IN  [start |-> current_time,
             end |-> current_time + Get(project, "daily_minutes", DefaultDailyMinutes),
             project_id |-> project.project_id,
             project_name |-> Get(project, "name", "Unknown"),
             templates |-> Get(project, "description_templates", <<>>)]]

calculate_time_slots(date, schedule, start_hour) ==
    SlotsFrom(ReplaceTime(date, start_hour), schedule, 1)

----------------------------------------------------------------------------
(* clockify_client.py: the duplicate index *)

DatePrefixLen == 10

\* d[k] = v
IndexPut(d, k, v) == [x \in DOMAIN d \cup {k} |-> IF x = k THEN v ELSE d[x]]

\* existing[project_id].add(date_str), creating the set when the key is new
IndexAdd(idx, project_id, d) ==
    [p \in DOMAIN idx \cup {project_id} |->
        IF p = project_id
        THEN (IF p \in DOMAIN idx THEN idx[p] ELSE {}) \cup {d}
        ELSE idx[p]]

\* a variant that registers the whole start timestamp
IndexEntryWholeStamp(idx, entry) ==
    LET project_id == Get(entry, "projectId", None)
        start_str == Get(Get(entry, "timeInterval", <<>>), "start", <<>>)
    IN  IF ~Truthy(project_id) THEN idx
        ELSE IF Truthy(start_str)
             THEN IndexAdd(idx, project_id, start_str)
             ELSE idx

\* one iteration of the loop over entries
IndexEntry(idx, entry) ==
    LET project_id == Get(entry, "projectId", None)
        start_str == Get(Get(entry, "timeInterval", <<>>), "start", <<>>)
    IN  IF ~Truthy(project_id) THEN idx
        ELSE IF Truthy(start_str)
             THEN IndexAdd(idx, project_id, Slice(start_str, DatePrefixLen))
             ELSE idx

RECURSIVE IndexFrom(_, _, _)
IndexFrom(idx, entries, i) ==
    IF i > Len(entries) THEN idx
    ELSE IndexFrom(IndexEntry(idx, entries[i]), entries, i + 1)

\* the mapping built from the entries get_time_entries returned
get_existing_entries_by_project_and_date(entries) == IndexFrom(<<>>, entries, 1)

\* a variant that looks the index up by the date instead of the project
AlreadyRecordedByDate(idx, project_id, d) == d \in Get(idx, d, {})

\* main, lines 196-197: date_str in existing.get(project_id, set())
AlreadyRecorded(idx, project_id, d) == d \in Get(idx, project_id, {})

----------------------------------------------------------------------------
(* description_generator.py *)

RecentCapacity == 3

Fallback == <<"g", "e", "n", "e", "r", "a", "l", " ", "w", "o", "r", "k", " ", "a", "n", "d", " ", "u", "p", "d", "a", "t", "e", "s">>

\* DescriptionGenerator.__init__
NewGenerator(templates) == [templates |-> templates, used_recently |-> <<>>]

add_templates(g, templates) == [g EXCEPT !.templates = @ \o templates]

\* a variant that does not consult the recency buffer
AvailableAll(g) == g.templates

\* line 49: the templates not used recently, in template order
Available(g) ==
    SelectSeq(g.templates, LAMBDA t : t \notin Range(g.used_recently))

\* lines 50-52: the candidates of this call and the buffer they are drawn against
Candidates(g) ==
    IF Available(g) = <<>>
    THEN [available |-> g.templates, used |-> <<>>]
    ELSE [available |-> Available(g), used |-> g.used_recently]

\* lines 55-59: append, then keep only the last RecentCapacity
Remember(used, chosen) ==
    LET u == Append(used, chosen)
    IN  IF Len(u) > RecentCapacity THEN Tail(u) ELSE u

Orders(n) ==
    {p \in [1..n -> 1..n] : \A i, j \in 1..n : p[i] = p[j] => i = j}

\* random.sample(activities, n - 1): n - 1 of them, in any order
Samples(acts) ==
    LET n == Len(acts)
    IN  {[i \in 1..(n - 1) |-> acts[p[i]]] : p \in Orders(n)}

\* random.shuffle(activities): any order
Shuffles(acts) ==
    {[i \in 1..Len(acts) |-> acts[p[i]]] : p \in Orders(Len(acts))}

\* _create_variation: every description it can return for a template
create_variation(template) ==
    LET parts == Split(template, ",")
        activities == [i \in 1..Len(parts) |-> Strip(parts[i])]
        shuffled == IF Len(activities) > 1
                    THEN {activities} \cup Shuffles(activities)
                    ELSE {activities}
        dropped == IF Len(activities) > 2
                   THEN UNION {Samples(a) : a \in shuffled}
                   ELSE {}
    IN  {Join(a, <<",", " ">>) : a \in shuffled \cup dropped}

\* generate(): every outcome of one call, as the object afterwards, the
\* template selected (None for the fallback) and the string returned
generate(g) ==
    IF g.templates = <<>>
    THEN {[generator |-> g, chosen |-> None, description |-> Fallback]}
    ELSE LET c == Candidates(g)
         IN  {[generator |-> [g EXCEPT !.used_recently = Remember(c.used, t)],
               chosen |-> t,
               description |-> d] :
                  <<t, d>> \in UNION {{<<t, d>> : d \in create_variation(t)} :
                                         t \in Range(c.available)}}

RECURSIVE HistoryFrom(_, _, _, _, _)
HistoryFrom(entries, project_id, i, templates, seen) ==
    IF i > Len(entries) THEN templates
    ELSE LET entry == entries[i]
             desc == Strip(Get(entry, "description", <<>>))
         IN  IF Get(entry, "projectId", None) # project_id
             THEN HistoryFrom(entries, project_id, i + 1, templates, seen)
             ELSE IF Truthy(desc) /\ desc \notin seen
                  THEN HistoryFrom(entries, project_id, i + 1,
                                   Append(templates, desc), seen \cup {desc})
                  ELSE HistoryFrom(entries, project_id, i + 1, templates, seen)

\* a variant that keeps repeated descriptions
RECURSIVE HistoryRepeating(_, _, _)
HistoryRepeating(entries, project_id, i) ==
    IF i > Len(entries) THEN <<>>
    ELSE LET desc == Strip(Get(entries[i], "description", <<>>))
         IN  (IF Get(entries[i], "projectId", None) = project_id /\ Truthy(desc)
              THEN <<desc>> ELSE <<>>)
                 \o HistoryRepeating(entries, project_id, i + 1)

from_history_repeating(entries, project_id) ==
    NewGenerator(HistoryRepeating(entries, project_id, 1))

from_history(entries, project_id) ==
    NewGenerator(HistoryFrom(entries, project_id, 1, <<>>, {}))

\* main, lines 203-208: the generator a slot's description is drawn from
SlotGenerator(analyze_history, history, slot) ==
    IF analyze_history /\ history # <<>>
    THEN LET g == from_history(history, slot.project_id)
         IN  IF slot.templates # <<>> THEN add_templates(g, slot.templates) ELSE g
    ELSE NewGenerator(slot.templates)

----------------------------------------------------------------------------
(* main(): one run of the scheduler *)

P1 == <<"P", "1">>

P2 == <<"P", "2">>

TA == <<"a">>

TB == <<"b">>

TXY == <<"x", ",", "y">>

\* a recorded entry as the service returns it
Entry(project_id, start, desc) ==
    [projectId |-> project_id,
     timeInterval |-> [start |-> StrftimeStamp(start)],
     description |-> desc]

NoSlot == [outcome |-> "none"]

NoStreak == [template |-> None, calls |-> 0]

NoTally ==
    [processed |-> 0, generated |-> 0, create_calls |-> 0, failed |-> 0, previewed |-> 0]

\* the state before main() has computed anything
Blank ==
    /\ pc = "start"
    /\ start_date = 0
    /\ end_date = 0
    /\ existing = <<>>
    /\ history_entries = <<>>
    /\ dates = <<>>
    /\ dayIdx = 0
    /\ date_str = <<>>
    /\ slots = <<>>
    /\ slotIdx = 0
    /\ entries_created = 0
    /\ entries_skipped = 0
    /\ generator = NewGenerator(<<>>)
    /\ description = <<>>
    /\ summary = <<>>
    /\ tally = NoTally
    /\ last = NoSlot
    /\ emitted = <<>>
    /\ streak = NoStreak

RunDays == 2

RunDates == {None} \cup {StrftimeDate(Days(d)) : d \in 0..(RunDays - 1)}

\* a Wednesday afternoon
RunTodays == {Days(2) + 14 * 60 + 30}

RunConfigs ==
    {[day_start_hour |-> 8],
     [schedule |-> <<[project_id |-> P1, daily_minutes |-> 60]>>],
     [schedule |-> <<[project_id |-> P1, name |-> "Alpha", daily_minutes |-> 90,
                      description_templates |-> <<TA, TB>>],
                     [project_id |-> P2, name |-> "Beta",
                      description_templates |-> <<TXY>>]>>,
      day_start_hour |-> 8]}

RunEntries ==
    {<<>>,
     <<Entry(P1, Days(0) + 9 * 60, TA)>>,
     <<Entry(P1, Days(0) + 9 * 60, TA), Entry(P2, Days(1) + 10 * 60, TB),
       [timeInterval |-> [start |-> StrftimeStamp(Days(1))]]>>,
     <<[projectId |-> P2, description |-> TB], Entry(P1, Days(1) + 9 * 60, TA)>>}

RunHistories ==
    {<<>>,
     <<[projectId |-> P1, description |-> TA],
       [projectId |-> P1, description |-> TA],
       [projectId |-> P2, description |-> TB]>>,
     <<[projectId |-> P1, description |-> <<" ", "c", " ">>],
       [projectId |-> P1, description |-> <<>>]>>}

Init ==
    /\ Blank
    /\ args \in [start_date : RunDates, end_date : RunDates,
                 dry_run : BOOLEAN, analyze_history : BOOLEAN]
    /\ today \in RunTodays
    /\ config \in RunConfigs
    /\ server \in [entries : RunEntries, history : RunHistories]
    /\ ~args.analyze_history => server.history = <<>>

inputs == <<args, today, config, server>>

\* lines 136-181: the date range, the duplicate index, the history, the dates
Start ==
    /\ pc = "start"
    /\ start_date' = ResolveStartDate(args, today)
    /\ end_date' = ResolveEndDate(args, start_date')
    /\ existing' = get_existing_entries_by_project_and_date(server.entries)
    /\ history_entries' = IF args.analyze_history THEN server.history ELSE <<>>
    /\ dates' = get_week_dates(start_date', end_date')
    /\ entries_created' = 0
    /\ entries_skipped' = 0
    /\ pc' = "day"
    /\ UNCHANGED <<inputs, dayIdx, date_str, slots, slotIdx, generator, description,
                   summary, tally, last, emitted, streak>>

\* lines 183-189: the next date's slots
NextDay ==
    /\ pc = "day"
    /\ dayIdx < Len(dates)
    /\ dayIdx' = dayIdx + 1
    /\ date_str' = StrftimeDate(dates[dayIdx + 1])
    /\ slots' = calculate_time_slots(dates[dayIdx + 1], Get(config, "schedule", <<>>),
                                     Get(config, "day_start_hour", DefaultStartHour))
    /\ slotIdx' = 0
    /\ pc' = IF slots' = <<>> THEN "day" ELSE "slot"
    /\ UNCHANGED <<inputs, start_date, end_date, existing, history_entries, dates,
                   entries_created, entries_skipped, generator, description, summary,
                   tally, last, emitted, streak>>

Slot == slots[slotIdx + 1]

\* the for loop over slots moves on
Advance ==
    /\ slotIdx' = slotIdx + 1
    /\ pc' = IF slotIdx + 1 = Len(slots) THEN "day" ELSE "slot"
    /\ UNCHANGED <<inputs, start_date, end_date, existing, history_entries, dates,
                   dayIdx, date_str, slots, summary, streak>>

\* what is recorded about the slot just processed
Record(outcome, generated, calls, consulted, chosen) ==
    [outcome |-> outcome,
     project_id |-> Slot.project_id,
     date_str |-> date_str,
     generated |-> generated,
     create_calls |-> calls,
     created_before |-> entries_created,
     skipped_before |-> entries_skipped,
     consulted |-> consulted,
     prev_emitted |-> Get(emitted, Slot.project_id, None),
     chosen |-> chosen]

\* lines 196-200
SkipSlot ==
    /\ pc = "slot"
    /\ AlreadyRecorded(existing, Slot.project_id, date_str)
    /\ entries_skipped' = entries_skipped + 1
    /\ last' = Record("Skipped", FALSE, 0, <<>>, None)
    /\ tally' = [tally EXCEPT !.processed = @ + 1]
    /\ Advance
    /\ UNCHANGED <<entries_created, generator, description, emitted>>

\* lines 203-210: a new generator for this slot, and one generate() call on it
Describe(outcome, calls) ==
    LET g == SlotGenerator(args.analyze_history, history_entries, Slot)
    IN  \E o \in generate(g) :
            /\ generator' = o.generator
            /\ description' = o.description
            /\ last' = Record(outcome, TRUE, calls, g.used_recently, o.chosen)
            /\ emitted' = IF o.chosen = None THEN emitted
                          ELSE IndexPut(emitted, Slot.project_id, o.chosen)

\* a variant in which a dry run still calls create_time_entry
PreviewSlotCreates ==
    /\ pc = "slot"
    /\ ~AlreadyRecorded(existing, Slot.project_id, date_str)
    /\ args.dry_run
    /\ Describe("Previewed", 1)
    /\ tally' = [tally EXCEPT !.processed = @ + 1, !.generated = @ + 1,
                              !.previewed = @ + 1, !.create_calls = @ + 1]
    /\ Advance
    /\ UNCHANGED <<entries_created, entries_skipped>>

\* lines 214-216
PreviewSlot ==
    /\ pc = "slot"
    /\ ~AlreadyRecorded(existing, Slot.project_id, date_str)
    /\ args.dry_run
    /\ Describe("Previewed", 0)
    /\ tally' = [tally EXCEPT !.processed = @ + 1, !.generated = @ + 1,
                              !.previewed = @ + 1]
    /\ Advance
    /\ UNCHANGED <<entries_created, entries_skipped>>

\* lines 218-227: create_time_entry returns
CreateSlot ==
    /\ pc = "slot"
    /\ ~AlreadyRecorded(existing, Slot.project_id, date_str)
    /\ ~args.dry_run
    /\ Describe("Created", 1)
    /\ entries_created' = entries_created + 1
    /\ tally' = [tally EXCEPT !.processed = @ + 1, !.generated = @ + 1,
                              !.create_calls = @ + 1]
    /\ Advance
    /\ UNCHANGED entries_skipped

\* a variant that counts the entry before the call is known to succeed
CreateSlotFailsCounted ==
    /\ pc = "slot"
    /\ ~AlreadyRecorded(existing, Slot.project_id, date_str)
    /\ ~args.dry_run
    /\ Describe("Failed", 1)
    /\ entries_created' = entries_created + 1
    /\ tally' = [tally EXCEPT !.processed = @ + 1, !.generated = @ + 1,
                              !.create_calls = @ + 1, !.failed = @ + 1]
    /\ Advance
    /\ UNCHANGED entries_skipped

\* lines 218-224, 228-229: create_time_entry raises
CreateSlotFails ==
    /\ pc = "slot"
    /\ ~AlreadyRecorded(existing, Slot.project_id, date_str)
    /\ ~args.dry_run
    /\ Describe("Failed", 1)
    /\ tally' = [tally EXCEPT !.processed = @ + 1, !.generated = @ + 1,
                              !.create_calls = @ + 1, !.failed = @ + 1]
    /\ Advance
    /\ UNCHANGED <<entries_created, entries_skipped>>

\* a variant that reports every slot not skipped as created
SummaryOfPlanned ==
    /\ pc = "day"
    /\ dayIdx = Len(dates)
    /\ summary' =
          IF args.dry_run
          THEN [would_create |->
                    Len(dates) * Len(Get(config, "schedule", <<>>)) - entries_skipped,
                would_skip |-> entries_skipped]
          ELSE [created |->
                    Len(dates) * Len(Get(config, "schedule", <<>>)) - entries_skipped,
                skipped |-> entries_skipped]
    /\ pc' = "done"
    /\ UNCHANGED <<inputs, start_date, end_date, existing, history_entries, dates,
                   dayIdx, date_str, slots, slotIdx, entries_created, entries_skipped,
                   generator, description, tally, last, emitted, streak>>

\* lines 231-241
Summary ==
    /\ pc = "day"
    /\ dayIdx = Len(dates)
    /\ summary' =
          IF args.dry_run
          THEN [would_create |->
                    Len(dates) * Len(Get(config, "schedule", <<>>)) - entries_skipped,
                would_skip |-> entries_skipped]
          ELSE [created |-> entries_created, skipped |-> entries_skipped]
    /\ pc' = "done"
    /\ UNCHANGED <<inputs, start_date, end_date, existing, history_entries, dates,
                   dayIdx, date_str, slots, slotIdx, entries_created, entries_skipped,
                   generator, description, tally, last, emitted, streak>>

Next ==
    \/ Start
    \/ NextDay
    \/ SkipSlot
    \/ PreviewSlot
    \/ CreateSlot
    \/ CreateSlotFails
    \/ Summary

Spec == Init /\ [][Next]_vars

----------------------------------------------------------------------------
(* The planner on wider date ranges and schedules: dry runs of main() *)

PlanDays == 8

MaxItems == 2

PlanDates == {None} \cup {StrftimeDate(Days(d)) : d \in 0..(PlanDays - 1)}

\* a Wednesday afternoon and a Saturday midnight
PlanTodays == {Days(2) + 14 * 60 + 30, Days(5)}

PlanItems ==
    {[project_id |-> P1, daily_minutes |-> 30],
     [project_id |-> P2, name |-> "Beta"],
     [project_id |-> P1, name |-> "Alpha", daily_minutes |-> 45 * 16]}

PlanSchedules == UNION {[1..n -> PlanItems] : n \in 0..MaxItems}

PlanConfigs ==
    {[schedule |-> sch] : sch \in PlanSchedules}
        \cup {[schedule |-> sch, day_start_hour |-> 8] : sch \in [1..1 -> PlanItems]}

InitPlan ==
    /\ Blank
    /\ args \in [start_date : PlanDates, end_date : PlanDates,
                 dry_run : {TRUE}, analyze_history : {FALSE}]
    /\ today \in PlanTodays
    /\ config \in PlanConfigs
    /\ server \in [entries : {<<>>, <<Entry(P1, Days(1) + 9 * 60, TA)>>},
                   history : {<<>>}]

NextPlan ==
    \/ Start
    \/ NextDay
    \/ SkipSlot
    \/ PreviewSlot
    \/ Summary

SpecPlan == InitPlan /\ [][NextPlan]_vars

----------------------------------------------------------------------------
(* The duplicate index on its own: what main's Start builds from a response *)

MaxIdxEntries == 2

IdxEntryPool ==
    {Entry(P1, Days(0) + 9 * 60, TA),
     Entry(P1, Days(1) + 17 * 60, TA),
     Entry(P2, Days(0) + 10 * 60, TB),
     [timeInterval |-> [start |-> StrftimeStamp(Days(0))], description |-> TA],
     [projectId |-> P1, description |-> TA],
     [projectId |-> <<>>, timeInterval |-> [start |-> StrftimeStamp(Days(1))]],
     [projectId |-> P2, timeInterval |-> [start |-> <<>>]],
     [projectId |-> P2, timeInterval |-> [start |-> <<"2", "0", "2", "4">>]]}

IdxResponses == UNION {[1..n -> IdxEntryPool] : n \in 0..MaxIdxEntries}

NoArgs ==
    [start_date |-> None, end_date |-> None, dry_run |-> TRUE, analyze_history |-> FALSE]

InitIndex ==
    /\ Blank
    /\ args = NoArgs
    /\ today = Days(1)
    /\ config = [schedule |-> <<>>]
    /\ server \in [entries : IdxResponses, history : {<<>>}]

NextIndex == Start

SpecIndex == InitIndex /\ [][NextIndex]_vars

----------------------------------------------------------------------------
(* from_history on its own *)

MaxHistEntries == 4

HistEntryPool ==
    {[projectId |-> P1, description |-> TA],
     [projectId |-> P1, description |-> <<" ", "a">>],
     [projectId |-> P1, description |-> TB],
     [projectId |-> P1, description |-> <<" ">>],
     [projectId |-> P2, description |-> TA],
     [projectId |-> P1],
     [description |-> TB]}

HistResponses == UNION {[1..n -> HistEntryPool] : n \in 0..MaxHistEntries}

InitHistory ==
    /\ Blank
    /\ args = [NoArgs EXCEPT !.analyze_history = TRUE]
    /\ today = Days(1)
    /\ config = [schedule |-> <<>>]
    /\ server \in [entries : {<<>>}, history : HistResponses]

\* line 204: DescriptionGenerator.from_history(history_entries, project_id)
BuildFromHistory ==
    /\ pc = "start"
    /\ \E project_id \in {P1, P2} :
          /\ generator' = from_history(server.history, project_id)
          /\ last' = [outcome |-> "from_history", project_id |-> project_id]
    /\ history_entries' = server.history
    /\ pc' = "built"
    /\ UNCHANGED <<inputs, start_date, end_date, existing, dates, dayIdx, date_str,
                   slots, slotIdx, entries_created, entries_skipped, description,
                   summary, tally, emitted, streak>>

NextHistory == BuildFromHistory

SpecHistory == InitHistory /\ [][NextHistory]_vars

----------------------------------------------------------------------------
(* One DescriptionGenerator used for many calls *)

MaxTemplates == 6

MaxStreak == 5

TC == <<"c">>

TD == <<"d">>

TE == <<"e">>

PoolInitial == {<<>>, <<TA>>, <<TA, TB, TC>>, <<TA, TB, TC, TD>>}

PoolBatches == {<<TD>>, <<TA, TE>>, <<TB, TC>>, <<TXY>>}

InitPool ==
    /\ Blank
    /\ args = NoArgs
    /\ today = Days(1)
    /\ config = [schedule |-> <<>>]
    /\ server = [entries |-> <<>>, history |-> <<>>]

\* the calls so far that selected the template of the latest call in a row,
\* counted while the pool holds more than RecentCapacity distinct templates
StreakAfter(g, chosen) ==
    IF chosen = None \/ Cardinality(Range(g.templates)) <= RecentCapacity
    THEN NoStreak
    ELSE IF chosen = streak.template
         THEN [streak EXCEPT !.calls = IF @ < MaxStreak THEN @ + 1 ELSE @]
         ELSE [template |-> chosen, calls |-> 1]

PoolRest ==
    UNCHANGED <<inputs, start_date, end_date, existing, history_entries, dates,
                dayIdx, date_str, slots, slotIdx, entries_created, entries_skipped,
                summary, tally, emitted>>

\* DescriptionGenerator(templates)
PoolNew ==
    /\ pc = "start"
    /\ \E templates \in PoolInitial : generator' = NewGenerator(templates)
    /\ streak' = NoStreak
    /\ pc' = "pool"
    /\ UNCHANGED <<description, last>>
    /\ PoolRest

\* generator.generate()
PoolGenerate ==
    /\ pc = "pool"
    /\ \E o \in generate(generator) :
          /\ generator' = o.generator
          /\ description' = o.description
          /\ last' = [outcome |-> "generated", chosen |-> o.chosen,
                      consulted |-> generator.used_recently]
          /\ streak' = StreakAfter(generator, o.chosen)
    /\ pc' = "pool"
    /\ PoolRest

\* generator.add_templates(templates)
PoolAddTemplates ==
    /\ pc = "pool"
    /\ \E templates \in PoolBatches :
          /\ Len(generator.templates) + Len(templates) <= MaxTemplates
          /\ generator' = add_templates(generator, templates)
    /\ pc' = "pool"
    /\ UNCHANGED <<description, last, streak>>
    /\ PoolRest

NextPool ==
    \/ PoolNew
    \/ PoolGenerate
    \/ PoolAddTemplates

SpecPool == InitPool /\ [][NextPool]_vars

----------------------------------------------------------------------------
(* Claims *)

Schedule == Get(config, "schedule", <<>>)

Planned == Len(dates) * Len(Schedule)

Described == last.outcome \in {"Previewed", "Created", "Failed"}

\* the last slot's date is registered for its project in the index
LastInIndex ==
    /\ last.project_id \in DOMAIN existing
    /\ last.date_str \in existing[last.project_id]

\* C1: a slot whose date the index holds for its project is Skipped: the
\* skipped count goes up by one, no description is generated and no create
\* call is made; a create call is only made for a pair not in the index.
C1_IndexedSlotIsSkipped ==
    (pc \in {"day", "slot", "done"} /\ last.outcome # "none") =>
        /\ LastInIndex =>
              /\ last.outcome = "Skipped"
              /\ ~last.generated
              /\ last.create_calls = 0
              /\ entries_skipped = last.skipped_before + 1
              /\ entries_created = last.created_before
        /\ last.create_calls > 0 => ~LastInIndex

C1_Witness ==
    /\ last.outcome = "Skipped"
    /\ LastInIndex
    /\ entries_created > 0
    /\ ~args.dry_run

\* C2: in a non-dry run a failed create call leaves the created count as it
\* was, is made once, and does not stop the run: every slot gets at most one
\* create call, the slots are processed in planner order, the run can always
\* take its next step until the summary is printed, and it ends with every
\* planned slot processed.
C2_FailureIsLocal ==
    ~args.dry_run =>
        /\ last.outcome = "Failed" =>
              /\ entries_created = last.created_before
              /\ last.create_calls = 1
              /\ pc \in {"day", "slot", "done"}
        /\ last.outcome # "none" => last.create_calls <= 1
        /\ tally.create_calls <= tally.processed
        /\ entries_created + tally.failed = tally.create_calls
        /\ pc = "slot" => tally.processed = (dayIdx - 1) * Len(Schedule) + slotIdx
        /\ pc = "day" => tally.processed = dayIdx * Len(Schedule)
        /\ pc = "done" => tally.processed = Planned
        /\ pc # "done" => ENABLED Next

C2_Witness ==
    /\ ~args.dry_run
    /\ pc = "done"
    /\ tally.failed > 0
    /\ last.outcome = "Created"
    /\ entries_skipped > 0

\* C3: in a dry run no create call is made and the created count stays 0;
\* every slot that is not skipped gets a generated description and is
\* Previewed.
C3_DryRunCreatesNothing ==
    args.dry_run =>
        /\ tally.create_calls = 0
        /\ entries_created = 0
        /\ tally.failed = 0
        /\ last.outcome \notin {"none", "Skipped"} =>
              /\ last.outcome = "Previewed"
              /\ last.generated
              /\ last.create_calls = 0
        /\ tally.previewed = tally.generated
        /\ tally.processed = entries_skipped + tally.previewed

C3_Witness ==
    /\ args.dry_run
    /\ last.outcome = "Previewed"
    /\ entries_skipped > 0
    /\ description # <<>>

RECURSIVE WeekdaysBetween(_, _)
WeekdaysBetween(first, final) ==
    IF first > final THEN <<>>
    ELSE (IF first % 7 \in 0..4 THEN <<first>> ELSE <<>>)
             \o WeekdaysBetween(first + 1, final)

\* C4: the planned days are exactly the Monday-Friday calendar dates from the
\* start date to the end date, both included, in calendar order.
C4_PlannedDaysAreTheWeekdays ==
    pc # "start" =>
        [i \in 1..Len(dates) |-> DayOf(dates[i])]
            = WeekdaysBetween(DayOf(start_date), DayOf(end_date))

\* C5: while the pool holds more than 3 distinct templates, the same template
\* is never selected on more than 3 consecutive generate() calls.
C5_NoLongStreak == streak.calls <= 3

C5_Witness ==
    /\ pc = "pool"
    /\ Cardinality(Range(generator.templates)) > 3
    /\ Len(generator.used_recently) = 3
    /\ streak.calls >= 1
    /\ Len(generator.templates) > Cardinality(Range(generator.templates))

QueryProjects == {P1, P2, <<"P", "3">>}

QueryDates ==
    {StrftimeDate(Days(0)), StrftimeDate(Days(1)), StrftimeDate(Days(2)),
     <<"2", "0", "2", "4">>, StrftimeStamp(Days(0) + 9 * 60)}

\* entry e is of project p and the first 10 characters of its start are d
EntryMatches(e, p, d) ==
    /\ "projectId" \in DOMAIN e
    /\ e.projectId = p
    /\ "timeInterval" \in DOMAIN e
    /\ "start" \in DOMAIN e.timeInterval
    /\ LET st == e.timeInterval.start
       IN  /\ st # <<>>
           /\ Len(d) = (IF Len(st) < 10 THEN Len(st) ELSE 10)
           /\ \A k \in 1..Len(d) : d[k] = st[k]

\* C6: the index answers contains(p, d) exactly when some recorded entry has
\* project p and a start whose first 10 characters are d; entries without a
\* project or start add nothing; an absent project is an empty set.
C6_IndexIsExact ==
    pc # "start" =>
        /\ \A p \in QueryProjects, d \in QueryDates :
              AlreadyRecorded(existing, p, d)
                  <=> \E i \in 1..Len(server.entries) :
                         EntryMatches(server.entries[i], p, d)
        /\ \A p \in DOMAIN existing :
              /\ p \in QueryProjects
              /\ existing[p] \subseteq QueryDates

C6_Witness ==
    /\ pc # "start"
    /\ AlreadyRecorded(existing, P1, StrftimeDate(Days(1)))
    /\ ~AlreadyRecorded(existing, P2, StrftimeDate(Days(1)))
    /\ \E i \in 1..Len(server.entries) : "projectId" \notin DOMAIN server.entries[i]

\* the elements of ds at the positions in keep, in order
RECURSIVE PickFrom(_, _, _)
PickFrom(ds, keep, i) ==
    IF i > Len(ds) THEN <<>>
    ELSE (IF i \in keep THEN <<ds[i]>> ELSE <<>>) \o PickFrom(ds, keep, i + 1)

\* the non-empty elements of ds, each once, in order of first occurrence
FirstOccurrences(ds) ==
    PickFrom(ds, {i \in 1..Len(ds) :
                     ds[i] # <<>> /\ \A j \in 1..(i - 1) : ds[j] # ds[i]}, 1)

\* the entries of the project the generator was built for
OfProject ==
    SelectSeq(server.history,
              LAMBDA e : "projectId" \in DOMAIN e /\ e.projectId = last.project_id)

\* their descriptions as recorded (an entry without one counts as empty)
RawDescriptions ==
    [i \in 1..Len(OfProject) |-> Get(OfProject[i], "description", <<>>)]

\* their descriptions without the leading and trailing blanks
TrimmedDescriptions ==
    [i \in 1..Len(RawDescriptions) |->
        LET d == RawDescriptions[i]
            blank == {k \in 1..Len(d) : d[k] = " "}
            inner == (1..Len(d)) \ blank
        IN  IF inner = {} THEN <<>>
            ELSE SubSeq(d, CHOOSE k \in inner : \A m \in inner : k <= m,
                           CHOOSE k \in inner : \A m \in inner : k >= m)]

\* C7 as stated: the templates are the non-empty descriptions of the
\* project's entries, each once, in order of first occurrence.
C7_TemplatesAreTheDescriptions ==
    pc = "built" =>
        /\ generator.templates = FirstOccurrences(RawDescriptions)
        /\ generator.used_recently = <<>>

\* C7 amended: the templates are the descriptions of the project's entries
\* with leading and trailing whitespace removed, those left non-empty, each
\* once, in order of first occurrence; the recency buffer is empty.
C7_TemplatesAreTheTrimmedDescriptions ==
    pc = "built" =>
        /\ generator.templates = FirstOccurrences(TrimmedDescriptions)
        /\ generator.used_recently = <<>>

C7_Witness ==
    /\ pc = "built"
    /\ Len(generator.templates) = 2
    /\ Len(OfProject) = 3
    /\ \E i, j \in 1..Len(RawDescriptions) :
          /\ RawDescriptions[i] # RawDescriptions[j]
          /\ TrimmedDescriptions[i] = TrimmedDescriptions[j]
          /\ TrimmedDescriptions[i] # <<>>
    /\ Len(server.history) > Len(OfProject)

\* C8: the slots of a day are back to back in configured order: the first
\* starts at the day-start hour of that day, each ends daily_minutes after
\* its start, and each next one starts where the previous one ends.
C8_SlotsAreContiguous ==
    pc = "slot" =>
        /\ Len(slots) = Len(Schedule)
        /\ slots[1].start
              = DayOf(dates[dayIdx]) * 24 * 60
                    + 60 * (IF "day_start_hour" \in DOMAIN config
                            THEN config.day_start_hour ELSE 9)
        /\ \A i \in 1..Len(slots) :
              /\ slots[i].project_id = Schedule[i].project_id
              /\ slots[i].end
                    = slots[i].start
                          + (IF "daily_minutes" \in DOMAIN Schedule[i]
                             THEN Schedule[i].daily_minutes ELSE 60)
        /\ \A i \in 1..(Len(slots) - 1) : slots[i + 1].start = slots[i].end

C8_Witness ==
    /\ pc = "slot"
    /\ Len(slots) = 2
    /\ slotIdx = 1
    /\ last.outcome = "Skipped"
    /\ last.date_str = date_str
    /\ slots[2].start = slots[1].end
    /\ slots[1].end > slots[1].start

\* what the summary reports for each outcome (0 when it reports no such count)
Reported(outcome) ==
    CASE outcome = "created" -> Get(summary, "created", 0)
      [] outcome = "skipped" -> Get(summary, "skipped", Get(summary, "would_skip", 0))
      [] outcome = "previewed" -> Get(summary, "would_create", 0)
      [] outcome = "failed" -> Get(summary, "failed", 0)

\* C9 as stated: the summary's created, skipped, previewed and failed counts
\* sum to the number of planned slots, and its failed count is the number of
\* failed create calls.
C9_SummaryAccountsForEverySlot ==
    pc = "done" =>
        /\ Reported("created") + Reported("skipped") + Reported("previewed")
               + Reported("failed") = Planned
        /\ Reported("failed") = tally.failed

\* C9 amended: the summary reports two counts.  In a dry run they are the
\* slots that would be created (the previewed ones) and the skipped ones, and
\* sum to the planned slots.  Otherwise they are the created and the skipped
\* ones, no failed count is reported, and they sum to the planned slots less
\* the create calls that failed.
C9_SummaryReportsTwoCounts ==
    pc = "done" =>
        IF args.dry_run
        THEN /\ summary = [would_create |-> tally.previewed,
                           would_skip |-> entries_skipped]
             /\ summary.would_create + summary.would_skip = Planned
        ELSE /\ DOMAIN summary = {"created", "skipped"}
             /\ summary.created = tally.create_calls - tally.failed
             /\ summary.skipped = tally.processed - tally.create_calls
             /\ summary.created + summary.skipped = Planned - tally.failed

C9_Witness ==
    /\ pc = "done"
    /\ ~args.dry_run
    /\ tally.failed > 0
    /\ entries_created > 0
    /\ entries_skipped > 0

\* C10: the template emitted for a project's slot is still in the recency
\* buffer consulted when the description of that project's next non-skipped
\* slot is generated.
C10_RecencyCarriesOver ==
    (pc \in {"day", "slot", "done"} /\ Described /\ last.prev_emitted # None) =>
        last.prev_emitted \in Range(last.consulted)

====
